---- MODULE Spec2Model ----
(***************************************************************************)
(* Atlas Notify server: the Stripe webhook receiver, the membership        *)
(* committer (users / memberships in PostgreSQL), the Discord notifier     *)
(* and the bearer-protected /notify relay.                                 *)
(*                                                                         *)
(* The repository holds two builds of the server: src/server.js (with the  *)
(* PostgreSQL store and the auto-migration) and src/unnamed/part_000       *)
(* (no store).  The variable app says which build the process runs.        *)
(*                                                                         *)
(* Every await of the source is a step boundary: the code between two      *)
(* awaits runs in one turn of the event loop and is one action here.       *)
(* PostgreSQL (READ COMMITTED, row locks held to the end of a              *)
(* transaction), the pg pool, Stripe's constructEvent and node-fetch are   *)
(* the environment; each of their calls either succeeds or throws.         *)
(* Timestamps (created_at, started_at) are not modelled.                   *)
(***************************************************************************)
EXTENDS Integers, Sequences, FiniteSets, TLC

\* ---------------------------------------------------------------- bounds
\* Number of HTTP requests delivered to the process.
MaxReq == 2
\* Number of clients of the pg pool.
PoolSize == 2

Reqs == 1..MaxReq

\* ------------------------------------------------------------ JS values
\* null / undefined of JavaScript
Null == "<null>"

\* JavaScript falsiness of the string-or-null values used here
Falsy(x) == x \in {Null, ""}

\* a || b
Or(a, b) == IF Falsy(a) THEN b ELSE a

\* ---------------------------------------------------------------- inputs
Completed == "checkout.session.completed"

\* Events the billing provider delivers (event.type and event.data.object).
\* E1: the example of the specification.  E2: the same buyer through
\* metadata.email with an empty customer_details.email, no plan, no
\* customer.  E3: another buyer, both emails present.  E4: no email at
\* all.  E5: another event type.
E1 == [type |-> Completed, id |-> "sess_1", cdEmail |-> "a@b.com",
       mdEmail |-> Null, plan |-> "pro", customer |-> "cus_1"]
E2 == [type |-> Completed, id |-> "sess_2", cdEmail |-> "",
       mdEmail |-> "a@b.com", plan |-> Null, customer |-> Null]
E3 == [type |-> Completed, id |-> "sess_3", cdEmail |-> "c@d.com",
       mdEmail |-> "a@b.com", plan |-> "pro", customer |-> "cus_2"]
E4 == [type |-> Completed, id |-> "sess_4", cdEmail |-> Null,
       mdEmail |-> "", plan |-> "pro", customer |-> "cus_1"]
E5 == [type |-> "invoice.paid", id |-> "in_1", cdEmail |-> "a@b.com",
       mdEmail |-> Null, plan |-> "pro", customer |-> "cus_1"]
Events == {E1, E2, E3, E4, E5}
NoEvent == [type |-> Null, id |-> Null, cdEmail |-> Null,
            mdEmail |-> Null, plan |-> Null, customer |-> Null]

\* stripe-signature headers: one that verifies against the signing secret
\* and one that does not
GoodSig == "t=1,v1=good"
Signatures == {GoodSig, "t=1,v1=forged"}

\* Values of the environment variable RENDER_NOTIFY_TOKEN
TokenEnvs == {Null, "s3cret"}
\* Values of the environment variable DISCORD_WEBHOOK_URL
WebhookEnvs == {Null, "https://discord/hook"}

\* Authorization headers of /notify requests (Null: header absent)
AuthHeaders == {Null, "Bearer s3cret", "Bearer changeme", "s3cret", "bearer s3cret"}
\* req.body.content of /notify requests
Contents == {Null, "hello"}

Server == "server.js"
Legacy == "part_000"
Apps == {Server, Legacy}

\* ------------------------------------------------------------- variables
VARIABLES
    app,            \* which build runs
    tokenEnv,       \* process.env.RENDER_NOTIFY_TOKEN
    DISCORD_WEBHOOK,\* process.env.DISCORD_WEBHOOK_URL
    phase,          \* "connect" | "migrate" | "listening" | "exited"
    tables,         \* tables created by runMigrations, in order
    bootClient,     \* whether runMigrations holds a pool client
    users,          \* committed rows of table users
    memberships,    \* committed rows of table memberships
    usersSeq,       \* sequence users_id_seq
    membershipsSeq, \* sequence memberships_id_seq
    checkedOut,     \* number of pool clients that are checked out
    tx,             \* per request: the transaction of the session of the
                    \* client the handler holds
    req,            \* per request: the handler's locals and its response;
                    \* err is the error the handler ends with, acquired /
                    \* releases / committed / memId record what it did
    fetched         \* per request: contents POSTed to Discord

vars == <<app, tokenEnv, DISCORD_WEBHOOK, phase, tables, bootClient, users,
          memberships, usersSeq, membershipsSeq, checkedOut, tx, req, fetched>>

config == <<app, tokenEnv, DISCORD_WEBHOOK>>
boot == <<phase, tables, bootClient>>
store == <<users, memberships, usersSeq, membershipsSeq, tx>>

NoRow == [id |-> 0, email |-> Null, stripe_customer_id |-> Null]
EmptyTx == [open |-> FALSE, user |-> NoRow, mems |-> {}]

NoReq == [route |-> "none", pc |-> "idle", sig |-> Null, ev |-> NoEvent,
          auth |-> Null, content |-> Null, acquired |-> FALSE,
          releases |-> 0, err |-> "none",
          committed |-> FALSE, userId |-> 0, memId |-> 0,
          status |-> 0, body |-> Null]

\* RENDER_NOTIFY_TOKEN = process.env.RENDER_NOTIFY_TOKEN || 'changeme'
RENDER_NOTIFY_TOKEN == Or(tokenEnv, "changeme")

MigrationOrder == <<"users", "memberships", "templates", "alerts">>

Init ==
    /\ app \in Apps
    /\ tokenEnv \in TokenEnvs
    /\ DISCORD_WEBHOOK \in WebhookEnvs
    /\ phase = IF app = Server THEN "connect" ELSE "listening"
    /\ tables = <<>>
    /\ bootClient = FALSE
    /\ users = {}
    /\ memberships = {}
    /\ usersSeq = 0
    /\ membershipsSeq = 0
    /\ checkedOut = 0
    /\ tx = [r \in Reqs |-> EmptyTx]
    /\ req = [r \in Reqs |-> NoReq]
    /\ fetched = [r \in Reqs |-> <<>>]

\* pool.connect() resolves with a client no one else holds while fewer
\* than PoolSize clients are checked out, and waits otherwise; the clients
\* are interchangeable, so the pool is the count of those checked out
CanConnect(out) == out < PoolSize

\* ------------------------------------------------------------- startup
\* runMigrations: const client = await pool.connect()
MigrateConnect ==
    /\ app = Server /\ phase = "connect"
    /\ \/ /\ CanConnect(checkedOut)
          /\ checkedOut' = checkedOut + 1
          /\ bootClient' = TRUE
          /\ phase' = "migrate"
       \/ \* connect rejects: .catch of line 88 exits the process
          /\ phase' = "exited"
          /\ UNCHANGED <<checkedOut, bootClient>>
    /\ UNCHANGED <<config, tables, store, req, fetched>>

\* runMigrations: one CREATE TABLE IF NOT EXISTS; after the fourth the
\* finally block releases the client and .then starts the listener
MigrateQuery ==
    /\ app = Server /\ phase = "migrate"
    /\ \/ /\ tables' = Append(tables, MigrationOrder[Len(tables) + 1])
          /\ IF Len(tables) + 1 = Len(MigrationOrder)
             THEN /\ phase' = "listening"
                  /\ checkedOut' = checkedOut - 1
                  /\ bootClient' = FALSE
             ELSE UNCHANGED <<phase, checkedOut, bootClient>>
       \/ \* the statement throws: catch calls process.exit(1)
          /\ phase' = "exited"
          /\ UNCHANGED <<tables, checkedOut, bootClient>>
    /\ UNCHANGED <<config, users, memberships, usersSeq, membershipsSeq, tx,
                   req, fetched>>

\* ------------------------------------------------- pure parts of the code
\* Mutant of constructEvent: the signature is not checked
constructEventUnchecked(sig) == TRUE

\* stripe.webhooks.constructEvent(req.body, sig, STRIPE_WEBHOOK_SECRET):
\* TRUE when it returns the event, FALSE when it throws
constructEvent(sig) == sig = GoodSig

\* Mutant of IsCheckoutCompleted: every event type is dispatched to the
\* committer
IsAnyEvent(ev) == TRUE

\* event.type === 'checkout.session.completed'
IsCheckoutCompleted(ev) == ev.type = Completed

\* Mutant of ResolveEmail: the metadata email is preferred
ResolveEmailMetadataFirst(session) == Or(session.mdEmail, session.cdEmail)

\* session.customer_details?.email || session.metadata?.email
ResolveEmail(session) == Or(session.cdEmail, session.mdEmail)

\* part_000: ... || session.metadata?.email || 'unknown'
ResolveEmailLegacy(session) == Or(ResolveEmail(session), "unknown")

\* session.metadata?.plan || 'drop-scout'
ResolvePlan(session) == Or(session.plan, "drop-scout")

\* The announcement of server.js, as the pieces of its template literal
\* (the leading emoji is left out of the first piece)
Message(email, plan, sessionId) ==
    <<"NEW MEMBER: ", email, " purchased the ", plan, " plan. Session: ", sessionId>>

\* The announcement of part_000
MessageLegacy(email, plan, sessionId) ==
    <<"New ", plan, " member: ", email, " - session ", sessionId>>

\* Mutant of NotifierCalls: the destination is not tested
NotifierCallsAlways(webhook) == 1

\* sendDiscordNotification: the number of fetch calls one invocation issues
NotifierCalls(webhook) == IF Falsy(webhook) THEN 0 ELSE 1

\* Mutant of Authorized: the bare token is accepted without its scheme
AuthorizedBareToken(auth, token) == Or(auth, "") \in {"Bearer " \o token, token}

\* /notify: auth !== `Bearer ${RENDER_NOTIFY_TOKEN}` is false
Authorized(auth, token) == Or(auth, "") = "Bearer " \o token

\* The rows a session sees: the committed rows, with its own pending write
Visible(us, t) ==
    IF t.user = NoRow THEN us
    ELSE {u \in us : u.id # t.user.id} \cup {t.user}

\* Mutant of UpsertUser: a plain INSERT into a table without the UNIQUE
\* constraint on email
UpsertUserNoConflict(us, email, customer, nextId) ==
    [id |-> nextId, email |-> email, stripe_customer_id |-> customer]

\* Mutant of UpsertUser: DO UPDATE SET stripe_customer_id =
\* COALESCE(EXCLUDED.stripe_customer_id, users.stripe_customer_id)
UpsertUserCoalesce(us, email, customer, nextId) ==
    IF \E u \in us : u.email = email
    THEN LET u == CHOOSE x \in us : x.email = email
         IN  IF customer = Null THEN u
             ELSE [u EXCEPT !.stripe_customer_id = customer]
    ELSE [id |-> nextId, email |-> email, stripe_customer_id |-> customer]

\* INSERT INTO users (email, stripe_customer_id) VALUES ($1,$2)
\* ON CONFLICT (email) DO UPDATE SET stripe_customer_id = EXCLUDED....
\* RETURNING id: the row written, given the rows us the statement sees and
\* the value nextId drawn from users_id_seq
UpsertUser(us, email, customer, nextId) ==
    IF \E u \in us : u.email = email
    THEN LET u == CHOOSE x \in us : x.email = email
         IN  [u EXCEPT !.stripe_customer_id = customer]
    ELSE [id |-> nextId, email |-> email, stripe_customer_id |-> customer]

\* Mutant of InsertMembership: the parameters $2 and $3 are swapped
InsertMembershipSwapped(userId, sessionId, plan, nextId) ==
    [id |-> nextId, user_id |-> userId, stripe_session_id |-> plan,
     plan |-> sessionId, expires_at |-> Null]

\* INSERT INTO memberships (user_id, stripe_session_id, plan, started_at)
InsertMembership(userId, sessionId, plan, nextId) ==
    [id |-> nextId, user_id |-> userId, stripe_session_id |-> sessionId,
     plan |-> plan, expires_at |-> Null]

\* Mutant of CommitStore: a membership whose session identifier is already
\* stored is not inserted again
CommitStoreOncePerSession(st, t) ==
    [users |-> Visible(st.users, t),
     memberships |-> st.memberships \cup
        {m \in t.mems : \A n \in st.memberships :
                            n.stripe_session_id # m.stripe_session_id}]

\* COMMIT: the committed tables after transaction t commits
CommitStore(st, t) ==
    [users |-> Visible(st.users, t), memberships |-> st.memberships \cup t.mems]

\* Mutant of RollbackStore: the upsert was made outside the transaction
\* and stays
RollbackStoreKeepsUser(st, t) ==
    [users |-> Visible(st.users, t), memberships |-> st.memberships]

\* Mutant of RollbackStore: the catch block issues COMMIT
RollbackStoreAsCommit(st, t) == CommitStore(st, t)

\* ROLLBACK: the committed tables after transaction t is rolled back
RollbackStore(st, t) == st

\* Mutant of Finally: the client is released on the success path only
FinallyOnSuccess(q) == IF q.err = "none" THEN 1 ELSE 0

\* The finally block of handleCheckoutSessionCompleted: the number of
\* client.release() calls on the way out of handler q
Finally(q) == 1

\* res.status(status).send(body)
Respond(q, status, body) ==
    [q EXCEPT !.pc = "done", !.status = status, !.body = body]

\* Leave handleCheckoutSessionCompleted through finally, then respond
Finish(q, status, body) ==
    Respond([q EXCEPT !.releases = @ + Finally(q)], status, body)

\* The pool's count of checked-out clients after handler q left through
\* finally
Checkin(out, q) == out - Finally(q)

\* An async route handler q whose promise rejects with the Notifier's
\* error, which the handler does not catch.  What follows is the
\* framework's doing: Express 4 drops the rejection and the request gets no
\* response (pc "hung"; a Node that exits on an unhandled rejection
\* answers nothing either), Express 5 hands it to the default error handler,
\* which answers 500.
Rejected(q) ==
    { [q EXCEPT !.err = "notify", !.pc = "hung"],
      Respond([q EXCEPT !.err = "notify"], 500, "Internal Server Error") }

\* Mutant of CanArrive: the listener is started without waiting for
\* runMigrations
CanArriveBeforeMigrations(r) ==
    /\ req[r].pc = "idle"
    /\ IF r = 1 THEN TRUE ELSE req[r - 1].pc # "idle"

\* Requests arrive in slot order
CanArrive(r) ==
    /\ phase = "listening"
    /\ req[r].pc = "idle"
    /\ IF r = 1 THEN TRUE ELSE req[r - 1].pc # "idle"

\* ------------------------------------------ server.js: POST /stripe/webhook
\* Lines 106-127 and 130-140: from the arrival of the request to the first
\* await of handleCheckoutSessionCompleted (pool.connect)
StripeWebhook(r) ==
    /\ app = Server /\ CanArrive(r)
    /\ \E sig \in Signatures, ev \in Events :
         LET q == [NoReq EXCEPT !.route = "webhook", !.sig = sig, !.ev = ev]
         IN  req' = [req EXCEPT ![r] =
                 IF ~constructEvent(sig)
                 THEN Respond(q, 400, "Webhook Error")
                 ELSE IF IsCheckoutCompleted(ev)
                      THEN IF Falsy(ResolveEmail(ev))
                           THEN Respond(q, 200, "ok")
                           ELSE [q EXCEPT !.pc = "connect"]
                      ELSE Respond(q, 200, "ignored")]
    /\ UNCHANGED <<config, boot, store, checkedOut, fetched>>

\* const client = await pool.connect(): a checked-in client, or an error,
\* which leaves the function before the try block
PoolConnect(r) ==
    /\ req[r].pc = "connect"
    /\ \/ /\ CanConnect(checkedOut)
          /\ checkedOut' = checkedOut + 1
          /\ req' = [req EXCEPT ![r].acquired = TRUE, ![r].pc = "begin"]
       \/ /\ req' = [req EXCEPT ![r] =
                 Respond([@ EXCEPT !.err = "connect"], 500, "internal error")]
          /\ UNCHANGED checkedOut
    /\ UNCHANGED <<config, boot, store, fetched>>

\* await client.query('BEGIN')
Begin(r) ==
    /\ req[r].pc = "begin"
    /\ \/ /\ tx' = [tx EXCEPT ![r].open = TRUE]
          /\ req' = [req EXCEPT ![r].pc = "upsert"]
       \/ /\ req' = [req EXCEPT ![r].err = "BEGIN", ![r].pc = "rollback"]
          /\ UNCHANGED tx
    /\ UNCHANGED <<config, boot, users, memberships, usersSeq, membershipsSeq,
                   checkedOut, fetched>>

\* await client.query(upsertUser, [email, session.customer]); the statement
\* waits while another transaction holds an uncommitted write of that email
Upsert(r) ==
    /\ req[r].pc = "upsert"
    /\ LET email == ResolveEmail(req[r].ev)
       IN \/ /\ \A r2 \in Reqs \ {r} : tx[r2].user.email # email
             /\ LET row == UpsertUser(Visible(users, tx[r]), email,
                                      req[r].ev.customer, usersSeq + 1)
                IN  /\ tx' = [tx EXCEPT ![r].user = row]
                    /\ req' = [req EXCEPT ![r].userId = row.id,
                                          ![r].pc = "insert"]
             /\ usersSeq' = usersSeq + 1
          \/ /\ req' = [req EXCEPT ![r].err = "upsert", ![r].pc = "rollback"]
             /\ UNCHANGED <<tx, usersSeq>>
    /\ UNCHANGED <<config, boot, users, memberships, membershipsSeq, checkedOut,
                   fetched>>

\* await client.query(insertMembership, [userId, sessionId, plan])
Insert(r) ==
    /\ req[r].pc = "insert"
    /\ LET row == InsertMembership(req[r].userId, req[r].ev.id,
                                   ResolvePlan(req[r].ev), membershipsSeq + 1)
       IN \/ /\ tx' = [tx EXCEPT ![r].mems = @ \cup {row}]
             /\ membershipsSeq' = membershipsSeq + 1
             /\ req' = [req EXCEPT ![r].memId = row.id, ![r].pc = "commit"]
          \/ /\ req' = [req EXCEPT ![r].err = "insert", ![r].pc = "rollback"]
             /\ UNCHANGED <<tx, membershipsSeq>>
    /\ UNCHANGED <<config, boot, users, memberships, usersSeq, checkedOut,
                   fetched>>

\* await client.query('COMMIT'), then lines 164-166 up to the await of
\* fetch inside sendDiscordNotification (or, with no destination, through
\* finally to the response of line 120).  A COMMIT that throws has
\* committed nothing and has ended the transaction.
Commit(r) ==
    /\ req[r].pc = "commit"
    /\ LET q == [req[r] EXCEPT !.committed = TRUE]
           after == CommitStore([users |-> users, memberships |-> memberships], tx[r])
           msg == Message(ResolveEmail(q.ev), ResolvePlan(q.ev), q.ev.id)
       IN \/ /\ users' = after.users
             /\ memberships' = after.memberships
             /\ tx' = [tx EXCEPT ![r] = EmptyTx]
             /\ IF NotifierCalls(DISCORD_WEBHOOK) = 0
                THEN /\ req' = [req EXCEPT ![r] = Finish(q, 200, "ok")]
                     /\ checkedOut' = Checkin(checkedOut, q)
                     /\ UNCHANGED fetched
                ELSE /\ req' = [req EXCEPT ![r] = [q EXCEPT !.pc = "fetch"]]
                     /\ fetched' = [fetched EXCEPT ![r] = Append(@, msg)]
                     /\ UNCHANGED checkedOut
          \/ /\ tx' = [tx EXCEPT ![r] = EmptyTx]
             /\ req' = [req EXCEPT ![r].err = "COMMIT", ![r].pc = "rollback"]
             /\ UNCHANGED <<users, memberships, checkedOut, fetched>>
    /\ UNCHANGED <<config, boot, usersSeq, membershipsSeq>>

\* The fetch of sendDiscordNotification settles (line 166): resolved, the
\* function returns through finally and line 120 answers; rejected, the
\* error lands in the catch block of line 167
FetchDone(r) ==
    /\ app = Server /\ req[r].route = "webhook" /\ req[r].pc = "fetch"
    /\ \/ /\ req' = [req EXCEPT ![r] = Finish(@, 200, "ok")]
          /\ checkedOut' = Checkin(checkedOut, req[r])
       \/ /\ req' = [req EXCEPT ![r].err = "notify", ![r].pc = "rollback"]
          /\ UNCHANGED checkedOut
    /\ UNCHANGED <<config, boot, store, fetched>>

\* catch: await client.query('ROLLBACK'); throw err; finally release; the
\* route's catch answers 500.  A ROLLBACK that throws (the connection is
\* lost) replaces err as the error thrown, leaves through finally as well,
\* and the server ends the session's transaction.
Rollback(r) ==
    /\ req[r].pc = "rollback"
    /\ LET after == RollbackStore([users |-> users, memberships |-> memberships], tx[r])
       IN /\ users' = after.users
          /\ memberships' = after.memberships
          /\ tx' = [tx EXCEPT ![r] = EmptyTx]
          /\ \E ok \in BOOLEAN :
               LET q == [req[r] EXCEPT !.err = IF ok THEN @ ELSE "ROLLBACK"]
               IN  req' = [req EXCEPT ![r] = Finish(q, 500, "internal error")]
          /\ checkedOut' = Checkin(checkedOut, req[r])
    /\ UNCHANGED <<config, boot, usersSeq, membershipsSeq, fetched>>

\* ------------------------------------------- part_000: POST /stripe/webhook
\* Lines 36-56 up to the await of fetch
StripeWebhookLegacy(r) ==
    /\ app = Legacy /\ CanArrive(r)
    /\ \E sig \in Signatures, ev \in Events :
         LET q == [NoReq EXCEPT !.route = "webhook", !.sig = sig, !.ev = ev]
             msg == MessageLegacy(ResolveEmailLegacy(ev), ResolvePlan(ev), ev.id)
         IN  IF ~constructEvent(sig)
             THEN /\ req' = [req EXCEPT ![r] = Respond(q, 400, "Webhook Error")]
                  /\ UNCHANGED fetched
             ELSE IF IsCheckoutCompleted(ev) /\ NotifierCalls(DISCORD_WEBHOOK) > 0
                  THEN /\ req' = [req EXCEPT ![r] = [q EXCEPT !.pc = "fetch"]]
                       /\ fetched' = [fetched EXCEPT ![r] = Append(@, msg)]
                  ELSE /\ req' = [req EXCEPT ![r] = Respond(q, 200, "received")]
                       /\ UNCHANGED fetched
    /\ UNCHANGED <<config, boot, store, checkedOut>>

\* part_000 line 52: the fetch settles; a rejection is not caught by the
\* handler
FetchDoneLegacy(r) ==
    /\ app = Legacy /\ req[r].route = "webhook" /\ req[r].pc = "fetch"
    /\ \/ req' = [req EXCEPT ![r] = Respond(@, 200, "received")]
       \/ \E q \in Rejected(req[r]) : req' = [req EXCEPT ![r] = q]
    /\ UNCHANGED <<config, boot, store, checkedOut, fetched>>

\* ------------------------------------------------------------ POST /notify
\* server.js lines 196-202 and part_000 lines 58-65, up to the await of fetch
Notify(r) ==
    /\ CanArrive(r)
    /\ \E auth \in AuthHeaders, body \in Contents :
         LET p == [NoReq EXCEPT !.route = "notify", !.auth = auth]
             \* const content = req.body.content || ''
             content == Or(body, "")
             q == [p EXCEPT !.content = content]
         IN  IF ~Authorized(auth, RENDER_NOTIFY_TOKEN)
             THEN /\ req' = [req EXCEPT ![r] = Respond(p, 401, "unauthorized")]
                  /\ UNCHANGED fetched
             ELSE IF NotifierCalls(DISCORD_WEBHOOK) > 0
                  THEN /\ req' = [req EXCEPT ![r] = [q EXCEPT !.pc = "fetch"]]
                       /\ fetched' = [fetched EXCEPT ![r] =
                                         Append(@, <<content>>)]
                  ELSE /\ req' = [req EXCEPT ![r] = Respond(q, 200, "ok:true")]
                       /\ UNCHANGED fetched
    /\ UNCHANGED <<config, boot, store, checkedOut>>

\* The fetch of /notify settles.  part_000 catches a rejection and answers
\* 500; server.js does not catch it.
FetchDoneNotify(r) ==
    /\ req[r].route = "notify" /\ req[r].pc = "fetch"
    /\ \/ req' = [req EXCEPT ![r] = Respond(@, 200, "ok:true")]
       \/ \E q \in Rejected(req[r]) :
              req' = [req EXCEPT ![r] =
                 IF app = Legacy
                 THEN Respond([@ EXCEPT !.err = "notify"], 500, "failed")
                 ELSE q]
    /\ UNCHANGED <<config, boot, store, checkedOut, fetched>>

Next ==
    \/ MigrateConnect
    \/ MigrateQuery
    \/ \E r \in Reqs :
        \/ StripeWebhook(r)
        \/ PoolConnect(r)
        \/ Begin(r)
        \/ Upsert(r)
        \/ Insert(r)
        \/ Commit(r)
        \/ FetchDone(r)
        \/ Rollback(r)
        \/ StripeWebhookLegacy(r)
        \/ FetchDoneLegacy(r)
        \/ Notify(r)
        \/ FetchDoneNotify(r)

Spec == Init /\ [][Next]_vars

\* The process when every request goes to /stripe/webhook.  The webhook
\* handlers do not read RENDER_NOTIFY_TOKEN, which is left unset.
InitWebhook == Init /\ tokenEnv = Null

NextWebhook ==
    \/ MigrateConnect
    \/ MigrateQuery
    \/ \E r \in Reqs :
        \/ StripeWebhook(r)
        \/ PoolConnect(r)
        \/ Begin(r)
        \/ Upsert(r)
        \/ Insert(r)
        \/ Commit(r)
        \/ FetchDone(r)
        \/ Rollback(r)
        \/ StripeWebhookLegacy(r)
        \/ FetchDoneLegacy(r)

SpecWebhook == InitWebhook /\ [][NextWebhook]_vars

\* The process when every request goes to /notify
NextNotify ==
    \/ MigrateConnect
    \/ MigrateQuery
    \/ \E r \in Reqs :
        \/ Notify(r)
        \/ FetchDoneNotify(r)

SpecNotify == Init /\ [][NextNotify]_vars

TypeOK ==
    /\ app \in Apps
    /\ checkedOut \in 0..PoolSize
    /\ \A r \in Reqs : req[r].status \in {0, 200, 400, 401, 500}

\* ------------------------------------------------------------ properties
\* What the claims say of an event, stated apart from the code's operators
HasEmail(ev) == ev.cdEmail \notin {Null, ""} \/ ev.mdEmail \notin {Null, ""}
EmailOf(ev) == IF ev.cdEmail \notin {Null, ""} THEN ev.cdEmail ELSE ev.mdEmail

\* q is a signature-valid checkout.session.completed delivery with an email
ValidCheckout(q) ==
    /\ q.route = "webhook" /\ q.sig = GoodSig
    /\ q.ev.type = Completed /\ HasEmail(q.ev)

UsersOf(email) == {u \in users : u.email = email}
MembershipsOf(sessionId) == {m \in memberships : m.stripe_session_id = sessionId}
Finished(r) == req[r].pc = "done"

\* The handler of r ended because a step of its transaction failed
TxFailed(r) ==
    \/ req[r].err \in {"BEGIN", "upsert", "insert", "COMMIT"}
    \/ req[r].err = "ROLLBACK" /\ ~req[r].committed

\* The handler of r ended because the Notifier's call failed after COMMIT
NotifyFailed(r) ==
    \/ req[r].err = "notify"
    \/ req[r].err = "ROLLBACK" /\ req[r].committed

\* A row of users is what some committed delivery wrote
UserRowCommitted(u) ==
    \E r \in Reqs : /\ req[r].committed /\ req[r].userId = u.id
                    /\ EmailOf(req[r].ev) = u.email
                    /\ req[r].ev.customer = u.stripe_customer_id
MembershipRowCommitted(m) ==
    \E r \in Reqs : /\ req[r].committed /\ req[r].memId = m.id
                    /\ req[r].userId = m.user_id
                    /\ req[r].ev.id = m.stripe_session_id

\* C1: server.js: a single signature-valid checkout.session.completed
\* delivery with a resolvable email, on an empty store and without
\* failure, leaves exactly one User row with that email and exactly one
\* Membership row of that user and that session.
C1_SingleDelivery ==
    \A r \in Reqs :
        ( /\ app = Server
          /\ \A r2 \in Reqs \ {r} : req[r2].pc = "idle"
          /\ ValidCheckout(req[r]) /\ Finished(r) /\ req[r].err = "none" )
        => \E u \in users, m \in memberships :
              /\ users = {u} /\ memberships = {m}
              /\ u.email = EmailOf(req[r].ev)
              /\ m.user_id = u.id
              /\ m.stripe_session_id = req[r].ev.id

C1_Witness ==
    /\ app = Server
    /\ req[2].pc = "idle"
    /\ ValidCheckout(req[1]) /\ Finished(1) /\ req[1].err = "none"
    /\ req[1].ev = E2 /\ req[1].status = 200
    /\ Cardinality(users) = 1 /\ Cardinality(memberships) = 1

\* C2: the store never holds two Membership rows with the same billing
\* session identifier.
C2_OneMembershipPerSession ==
    \A m1, m2 \in memberships :
        m1.stripe_session_id = m2.stripe_session_id => m1 = m2

\* C3: when deliveries of the identical event have committed more than
\* once, the store holds one User row for its email and one Membership row
\* per committed delivery, all with its session identifier (two rows after
\* the second delivery).
C3_Redelivery ==
    \A ev \in Events :
        LET C == {r \in Reqs : req[r].committed /\ req[r].ev = ev}
        IN  Cardinality(C) >= 2 =>
              /\ Cardinality(UsersOf(EmailOf(ev))) = 1
              /\ Cardinality(MembershipsOf(ev.id)) = Cardinality(C)

C3_Witness ==
    /\ req[1].ev = E1 /\ req[2].ev = E1
    /\ req[1].committed /\ req[2].committed
    /\ req[1].status = 200 /\ req[2].status = 200
    /\ req[1].memId = 1 /\ req[2].memId = 2
    /\ Cardinality(UsersOf("a@b.com")) = 1
    /\ Cardinality(MembershipsOf("sess_1")) = 2

\* C4: a delivery whose BEGIN, upsert, insert or COMMIT failed is answered
\* with 500 and has committed nothing: its Membership row is not in the
\* store and every row of the store is what a committed delivery wrote.
C4_RollbackOnFailure ==
    \A r \in Reqs :
        (Finished(r) /\ TxFailed(r)) =>
            /\ req[r].status = 500
            /\ ~req[r].committed
            /\ tx[r] = EmptyTx
            /\ \A m \in memberships : m.id # req[r].memId
            /\ \A u \in users : UserRowCommitted(u)
            /\ \A m \in memberships : MembershipRowCommitted(m)

C4_Witness ==
    \E r \in Reqs :
        /\ Finished(r) /\ req[r].err = "COMMIT" /\ req[r].status = 500
        /\ req[r].memId > 0
        /\ users = {} /\ memberships = {}

\* C5: a delivery whose Notifier call failed after COMMIT keeps its rows
\* and is answered with 200.
C5_NotifierFailureSwallowed ==
    \A r \in Reqs :
        (app = Server /\ req[r].route = "webhook" /\ Finished(r) /\ NotifyFailed(r)) =>
            /\ req[r].status = 200
            /\ \E m \in memberships : m.id = req[r].memId

\* C6: a webhook request whose signature does not verify is answered 400
\* in the step that receives it, and that step changes neither the store
\* nor the pool nor what was sent to Discord.
C6_BadSignature ==
    [][ \A r \in Reqs :
          ( /\ req[r].pc = "idle"
            /\ req'[r].route = "webhook"
            /\ req'[r].sig # GoodSig )
          => /\ req'[r].pc = "done"
             /\ req'[r].status = 400
             /\ ~req'[r].acquired
             /\ UNCHANGED <<store, checkedOut, fetched>> ]_vars

C6_Witness ==
    \E r \in Reqs :
        /\ req[r].route = "webhook" /\ req[r].sig # GoodSig
        /\ req[r].ev = E1
        /\ Finished(r) /\ req[r].status = 400
        /\ fetched[r] = <<>>

\* C7: a signature-valid checkout.session.completed delivery without an
\* email acquires no client, writes no row and sends no notification, and
\* the answer it gets is 200.
C7_NoEmailSkipped ==
    \A r \in Reqs :
        ( /\ req[r].route = "webhook" /\ req[r].sig = GoodSig
          /\ req[r].ev.type = Completed /\ ~HasEmail(req[r].ev) )
        => /\ ~req[r].acquired /\ ~req[r].committed
           /\ fetched[r] = <<>>
           /\ Finished(r) => req[r].status = 200

\* C8: the committed table users never holds two rows with the same email.
C8_UniqueEmail ==
    \A u1, u2 \in users : u1.email = u2.email => u1 = u2

C8_Witness ==
    \E r1, r2 \in Reqs :
        /\ r1 # r2
        /\ req[r1].committed /\ req[r2].committed
        /\ req[r1].ev = E1 /\ req[r2].ev = E2
        /\ Cardinality(UsersOf("a@b.com")) = 1

\* C9: a handler that acquired a client has released it exactly once when
\* it has ended and not before; every checked-out client has exactly one
\* holder; when no handler is in flight no client is checked out.
InFlightHolders == {r \in Reqs : req[r].acquired /\ ~Finished(r)}

C9_ReleaseOnce ==
    /\ \A r \in Reqs :
          req[r].releases = IF req[r].acquired /\ Finished(r) THEN 1 ELSE 0
    /\ checkedOut = Cardinality(InFlightHolders) + (IF bootClient THEN 1 ELSE 0)
    /\ checkedOut <= PoolSize
    /\ (phase = "listening" /\ \A r \in Reqs : req[r].pc \in {"idle", "done", "hung"})
          => checkedOut = 0

C9_Witness ==
    /\ \A r \in Reqs : Finished(r) /\ req[r].acquired /\ req[r].releases = 1
    /\ req[1].err = "ROLLBACK" /\ req[2].err = "notify"
    /\ checkedOut = 0

\* C10: a /notify request whose Authorization header is absent or is not
\* exactly "Bearer <configured token>" is answered 401 in the step that
\* receives it, and that step sends nothing to Discord and changes neither
\* the store nor the pool.
C10_Unauthorized ==
    [][ \A r \in Reqs :
          ( /\ req[r].pc = "idle"
            /\ req'[r].route = "notify"
            /\ req'[r].auth # "Bearer " \o RENDER_NOTIFY_TOKEN )
          => /\ req'[r].pc = "done"
             /\ req'[r].status = 401
             /\ UNCHANGED <<store, checkedOut, fetched>> ]_vars

C10_Witness ==
    \E r \in Reqs :
        /\ req[r].route = "notify" /\ req[r].auth = "s3cret"
        /\ tokenEnv = "s3cret" /\ DISCORD_WEBHOOK # Null
        /\ Finished(r) /\ req[r].status = 401
        /\ fetched[r] = <<>>

\* q is a /notify request whose bearer token matches
AuthorizedNotify(q) ==
    q.route = "notify" /\ q.auth = "Bearer " \o RENDER_NOTIFY_TOKEN

\* C11: a /notify request with a matching bearer token whose Notifier call
\* failed has been answered, with status 500 (and one whose call did not
\* fail is answered 200).
C11_NotifyReportsOutcome ==
    \A r \in Reqs :
        (AuthorizedNotify(req[r]) /\ req[r].pc \notin {"idle", "fetch"}) =>
            /\ Finished(r)
            /\ req[r].status = IF req[r].err = "notify" THEN 500 ELSE 200

\* s is the beginning of t
IsPrefix(s, t) ==
    Len(s) <= Len(t) /\ \A i \in 1..Len(s) : s[i] = t[i]

C13_OtherEventIgnored ==
    [][ \A r \in Reqs :
          ( /\ req[r].pc = "idle"
            /\ req'[r].route = "webhook"
            /\ req'[r].sig = GoodSig
            /\ req'[r].ev.type # Completed )
          => /\ req'[r].pc = "done"
             /\ req'[r].status = 200
             /\ ~req'[r].acquired
             /\ UNCHANGED <<store, checkedOut, fetched>> ]_vars

C13_Witness ==
    \E r \in Reqs :
        /\ req[r].route = "webhook" /\ req[r].sig = GoodSig
        /\ req[r].ev = E5
        /\ Finished(r) /\ req[r].status = 200
        /\ fetched[r] = <<>> /\ ~req[r].acquired

\* server.js: the Notifier is called for r at most once, only for a valid
\* delivery whose transaction committed, never for one that failed before
\* COMMIT
NotifiedOnlyAfterCommit(r) ==
    /\ Len(fetched[r]) <= 1
    /\ fetched[r] # <<>> => ValidCheckout(req[r]) /\ req[r].committed
    /\ (TxFailed(r) \/ ~ValidCheckout(req[r])) => fetched[r] = <<>>

\* C14: server.js: the Notifier is called for a delivery at most once and
\* only after its COMMIT, never for a delivery that was rolled back,
\* skipped or rejected, and a failure of the call does not enter the
\* transaction's catch block (no ROLLBACK is issued for it and the
\* delivery is not answered as failed).
C14_NotifierOutsideTransaction ==
    \A r \in Reqs :
        (app = Server /\ req[r].route = "webhook") =>
            /\ NotifiedOnlyAfterCommit(r)
            /\ req[r].err = "notify" => /\ req[r].pc # "rollback"
                                        /\ Finished(r) => req[r].status = 200

\* The handler of r has called sendDiscordNotification: server.js line 166
\* (after COMMIT), part_000 line 52, and line 202 / part_000 line 66
Invoked(r) ==
    CASE req[r].route = "notify" -> AuthorizedNotify(req[r]) /\ req[r].pc # "idle"
      [] req[r].route = "webhook" /\ app = Server -> req[r].committed
      [] req[r].route = "webhook" /\ app = Legacy ->
             req[r].sig = GoodSig /\ req[r].ev.type = Completed
      [] OTHER -> FALSE

Commits(r) == req[r].pc = "commit" /\ req'[r].committed

\* C16: server.js: when a delivery commits, the users row of its email
\* carries that delivery's customer value (null included) and the id the
\* delivery got from its upsert; a step changes no users row's id or email
\* and only a COMMIT changes users at all; so the committed deliveries of
\* one email share one users row, which their memberships reference.
C16_LastWriteWins ==
    /\ [][ /\ \A r \in Reqs :
                Commits(r) =>
                    \E u \in users' :
                        /\ u.email = EmailOf(req[r].ev)
                        /\ u.stripe_customer_id = req[r].ev.customer
                        /\ u.id = req[r].userId
           /\ \A u \in users :
                \E v \in users' : v.id = u.id /\ v.email = u.email
           /\ users' # users => \E r \in Reqs : Commits(r) ]_vars
    /\ [](\A r \in Reqs :
            req[r].committed =>
                /\ Cardinality(UsersOf(EmailOf(req[r].ev))) = 1
                /\ \E u \in UsersOf(EmailOf(req[r].ev)), m \in memberships :
                      /\ u.id = req[r].userId
                      /\ m.id = req[r].memId /\ m.user_id = u.id)

\* a@b.com bought with customer cus_1 and then again with no customer: one
\* users row, id 1, customer null, referenced by both memberships
C16_Witness ==
    /\ \E r1, r2 \in Reqs :
          /\ req[r1].ev = E1 /\ req[r1].committed
          /\ req[r2].ev = E2 /\ req[r2].committed
          /\ req[r1].userId = req[r2].userId
    /\ UsersOf("a@b.com") = {[id |-> 1, email |-> "a@b.com",
                              stripe_customer_id |-> Null]}
    /\ Cardinality({m \in memberships : m.user_id = 1}) = 2

\* The plan the claim names: metadata.plan when present, else the fallback
PlanOf(ev) == IF ev.plan = Null THEN "drop-scout" ELSE ev.plan

\* x is one of the pieces the text msg is put together from
Contains(msg, x) == \E i \in 1..Len(msg) : msg[i] = x

C18_ReferentialIntegrity ==
    /\ [](/\ \A m \in memberships : \E u \in users : u.id = m.user_id
          /\ \A u \in users : \E m \in memberships : m.user_id = u.id)
    /\ [][ /\ memberships \subseteq memberships'
           /\ \A u \in users : \E v \in users' : v.id = u.id ]_vars

\* Two deliveries of different emails are in: one committed, the other
\* rolled back after its upsert and insert, leaving one user with one
\* membership
C18_Witness ==
    /\ \E r1, r2 \in Reqs :
          /\ req[r1].ev = E1 /\ req[r1].committed /\ Finished(r1)
          /\ req[r2].ev = E3 /\ req[r2].err = "COMMIT" /\ Finished(r2)
          /\ req[r2].memId > 0
    /\ Cardinality(users) = 1 /\ Cardinality(memberships) = 1

\* The deliveries of event ev that have arrived
DeliveriesOf(ev) ==
    {r \in Reqs : req[r].route = "webhook" /\ req[r].sig = GoodSig
                  /\ req[r].ev = ev}

\* C19: server.js: a delivery answered 500 has committed nothing (its
\* membership row is not in the store), and once the deliveries of an
\* event have all been answered, all with 500 but one with 200, the store
\* holds exactly one memberships row of that event's session.
C19_ServerErrorCommitsNothing ==
    /\ \A r \in Reqs :
          ( /\ app = Server /\ req[r].route = "webhook"
            /\ Finished(r) /\ req[r].status = 500 ) =>
              /\ ~req[r].committed
              /\ \A m \in memberships : m.id # req[r].memId
    /\ \A ev \in Events :
          ( /\ app = Server /\ ev.type = Completed /\ HasEmail(ev)
            /\ \A r \in DeliveriesOf(ev) : Finished(r)
            /\ Cardinality({r \in DeliveriesOf(ev) : req[r].status = 200}) = 1
            /\ \A r \in DeliveriesOf(ev) : req[r].status \in {200, 500} ) =>
              Cardinality(MembershipsOf(ev.id)) = 1

\* The positions of a webhook handler that still has a step to take
Running == {"connect", "begin", "upsert", "insert", "commit", "fetch",
            "rollback"}

\* C20: a webhook request that has arrived is either still being handled
\* or has been answered, with status 200, 400 or 500: no handler ends
\* without a response.
C20_WebhookAlwaysAnswered ==
    \A r \in Reqs :
        req[r].route = "webhook" =>
            \/ req[r].pc \in Running
            \/ Finished(r) /\ req[r].status \in {200, 400, 500}
====
